---- MODULE Spec2Model ----
(***************************************************************************)
(* Room/session coordination of the bingo relay server (class BingoServer, *)
(* the ws/express variant).  One action per socket event or inbound       *)
(* message kind; every handler runs to completion (single-threaded event   *)
(* loop), so a handler and everything it calls is one atomic step.         *)
(***************************************************************************)
EXTENDS Integers, Sequences, FiniteSets, TLC

\* ------------------------------------------------------------------ bounds
NConn == 3          \* connections ever accepted by the server
NGameConn == 2      \* the same, in the behaviours that also play the game
MaxRooms == 2       \* rooms ever created
MaxNum == 2         \* numbers a client may call: 1..MaxNum
RelayRooms == 1
ClientMaxRange == 2     \* the client's boards have numbers 1..ClientMaxRange
MaxCalled == 2          \* the client's list takes numbers of other callers up to this length
MaxTimeouts == 1        \* start timeouts of the client pending at a time
MaxDisplayNumbers == 2  \* gameState.maxDisplayNumbers, which the client sets to 8     \* rooms ever created in the behaviours that also relay
MaxCalls == 2       \* numbers called in a room of a relay without a duplicate check

\* ------------------------------------------------------- program constants
DefaultMaxPlayers == 100

Conn == 1..NConn
RoomId == 1..MaxRooms
None == 0           \* undefined / missing field

\* client-supplied inputs
RoomIdInputs == RoomId \cup {None}
NumberInputs == 1..MaxNum
MaxPlayersInputs == {0, DefaultMaxPlayers}
RoomNameInputs == {"", "room"}
GameTypeInputs == {"", "75ball"}
ChatTextInputs == {"", "hi"}
CapacityInputs == {1, 2}
OtherGameTypeInputs == {"chess"}
ClientGameTypes == {"75ball", "90ball"}   \* a lettered and a plain board type
RTCKinds == {"offer", "answer", "candidate"}

VARIABLES
    players,     \* keys of BingoServer.players (the registry)
    player,      \* the Player objects, by id: roomId, isHost, connected
    readyState,  \* player.ws.readyState of each connection's socket
    rooms,       \* BingoServer.rooms: room id -> Room
    timers,      \* connections with a pending reap timeout
    nextPlayer,  \* next fresh player id (uuidv4)
    nextRoom,    \* next fresh room id (uuidv4)
    sent,        \* messages passed to ws.send by the last handler, in order
    log,         \* lines the last handler wrote with console.log, in order
    last,        \* the event the last handler served
    running,     \* the server process has not exited
    gameState,   \* the client's gameState object (script.js)
    socket,      \* the client's socket.readyState
    startTimeouts, \* pending setTimeout callbacks of the client's startNewGame
    callNext     \* the client's callNextNumber: where it is, and its `number`

\* the state of the browser client; no server handler reads or writes it
clientVars == <<gameState, socket, startTimeouts, callNext>>

vars == <<players, player, readyState, rooms, timers, nextPlayer, nextRoom, sent, log, last,
          running, clientVars>>

\* ---------------------------------------------------------------- helpers
Range(s) == {s[i] : i \in 1..Len(s)}

\* a membership test that never finds the element
IncludesNever(s, x) == FALSE

\* Array.prototype.includes
Includes(s, x) == \E i \in 1..Len(s) : s[i] = x

\* Map.delete(key) on an insertion-ordered Map: the other keys keep their order
\* a delete that empties the map
MapClear(s, k) == <<>>

MapDelete(s, k) == SelectSeq(s, LAMBDA x : x # k)

\* Map.set(key, v) on an insertion-ordered Map: a new key goes last, an
\* existing key keeps its place
MapSet(s, k) == IF k \in Range(s) THEN s ELSE Append(s, k)

\* the last value of the iteration instead of the first
LastValue(s) == IF Len(s) = 0 THEN None ELSE s[Len(s)]

\* Map.values().next().value
FirstValue(s) == IF Len(s) = 0 THEN None ELSE s[1]

\* a message: its type, the id or number it carries, its error text, and the
\* room snapshot of a roomJoined (empty otherwise)
Msg(type, arg, text) == [type |-> type, arg |-> arg, text |-> text, data |-> <<>>]

\* the roomJoined message: hostId, playerCount, calledNumbers, gameActive
RoomJoinedMsg(roomId, room) ==
    [Msg("roomJoined", roomId, "") EXCEPT
        !.data = <<room.hostId, Len(room.players), room.calledNumbers, room.gameActive>>]

Event(op, p, roomId, arg) == [op |-> op, p |-> p, roomId |-> roomId, arg |-> arg]

\* the part of the server a handler reads and writes
Store == [player |-> player, rooms |-> rooms, readyState |-> readyState,
          sent |-> <<>>, log |-> <<>>]

\* console.log(line)
Log(st, line) == [st EXCEPT !.log = Append(@, line)]

\* player.ws.send(JSON.stringify(m))
WsSend(st, p, m) == [st EXCEPT !.sent = Append(@, [to |-> p, msg |-> m])]

\* room.players.forEach: send to each member but `exclude` whose socket is OPEN
RECURSIVE SendEach(_, _, _, _, _)
SendEach(out, ready, members, m, exclude) ==
    IF Len(members) = 0 THEN out
    ELSE LET q == Head(members)
             o == IF q # exclude /\ ready[q] = "OPEN"
                  THEN Append(out, [to |-> q, msg |-> m]) ELSE out
         IN SendEach(o, ready, Tail(members), m, exclude)

broadcastToRoom(st, roomId, m, exclude) ==
    IF roomId \notin DOMAIN st.rooms THEN st
    ELSE [st EXCEPT !.sent = SendEach(@, st.readyState, st.rooms[roomId].players,
                                      m, exclude)]

\* a delete that leaves the room in the store
RoomsKept(rs, roomId) == rs

\* this.rooms.delete(roomId)
RoomsWithout(rs, roomId) == [r \in DOMAIN rs \ {roomId} |-> rs[r]]

\* this.rooms.set(roomId, room)
RoomsWith(rs, roomId, room) ==
    [r \in DOMAIN rs \cup {roomId} |-> IF r = roomId THEN room ELSE rs[r]]

\* --------------------------------------------------------------- handlers
handleLeaveRoom(st, p, roomId) ==
    IF roomId = None THEN st
    ELSE IF roomId \notin DOMAIN st.rooms THEN st
    ELSE
      LET st0 == [st EXCEPT !.rooms[roomId].players = MapDelete(@, p),
                            !.player[p].roomId = None,
                            !.player[p].isHost = FALSE]
          room == st0.rooms[roomId]
          st3 ==
            IF Len(room.players) = 0
            THEN Log([st0 EXCEPT !.rooms = RoomsWithout(@, roomId)], "Room deleted (empty)")
            ELSE
              LET newHost == FirstValue(room.players)
                  st1 == IF room.hostId = p /\ newHost # None
                         THEN broadcastToRoom(
                                [st0 EXCEPT !.rooms[roomId].hostId = newHost,
                                            !.player[newHost].isHost = TRUE],
                                roomId, Msg("newHost", newHost, ""), None)
                         ELSE st0
              IN broadcastToRoom(st1, roomId, Msg("playerLeftRoom", p, ""), None)
      IN Log(st3, "Player left room")

handleCreateRoom(st, p, roomName, gameType, maxPlayers) ==
    IF roomName = "" \/ gameType = ""
    THEN WsSend(st, p, Msg("error", None, "Room name and game type required"))
    ELSE
      LET roomId == nextRoom
          room == [hostId |-> p, players |-> <<p>>, gameType |-> gameType,
                   gameActive |-> FALSE, calledNumbers |-> <<>>,
                   maxPlayers |-> maxPlayers]
          st1 == [st EXCEPT !.player[p].roomId = roomId,
                            !.player[p].isHost = TRUE,
                            !.rooms = RoomsWith(st.rooms, roomId, room)]
      IN Log(WsSend(st1, p, Msg("roomCreated", roomId, "")), "Room created")

\* a join that keeps the joiner in its current room
StayInCurrent(st, p, roomId) == st

\* "Leave current room if any"
LeaveCurrent(st, p, roomId) ==
    LET cur == st.player[p].roomId
    IN IF cur # None /\ cur # roomId THEN handleLeaveRoom(st, p, cur) ELSE st

\* a capacity test that never finds the room full
RoomIsFullNever(room) == FALSE

\* room.players.size >= room.maxPlayers
RoomIsFull(room) == Len(room.players) >= room.maxPlayers

handleJoinRoom(st, p, roomId) ==
    IF roomId = None
    THEN WsSend(st, p, Msg("error", None, "Room ID required"))
    ELSE IF roomId \notin DOMAIN st.rooms
    THEN WsSend(st, p, Msg("error", None, "Room not found"))
    ELSE IF RoomIsFull(st.rooms[roomId])
    THEN WsSend(st, p, Msg("error", None, "Room is full"))
    ELSE
      LET st1 == LeaveCurrent(st, p, roomId)
          st2 == [st1 EXCEPT !.rooms[roomId].players = MapSet(@, p),
                             !.player[p].roomId = roomId,
                             !.player[p].isHost = FALSE]
          st3 == WsSend(st2, p, RoomJoinedMsg(roomId, st2.rooms[roomId]))
      IN Log(broadcastToRoom(st3, roomId, Msg("playerJoinedRoom", p, ""), p),
             "Player joined room")

\* a call that puts the number in front of the earlier ones
UnshiftNumber(called, number) == <<number>> \o called

\* room.calledNumbers.push(number)
PushNumber(called, number) == Append(called, number)

handleNumberCall(st, p, number) ==
    LET roomId == st.player[p].roomId IN
    IF roomId = None THEN st
    ELSE IF roomId \notin DOMAIN st.rooms THEN st
    ELSE IF ~st.player[p].isHost
    THEN WsSend(st, p, Msg("error", None, "Only host can call numbers"))
    ELSE
      LET called == st.rooms[roomId].calledNumbers
          st1 == IF ~Includes(called, number)
                 THEN [st EXCEPT !.rooms[roomId].calledNumbers = PushNumber(@, number)]
                 ELSE st
      IN Log(broadcastToRoom(st1, roomId, Msg("numberCalled", number, ""), p),
             "Number called in room")

handleStartGame(st, p) ==
    LET roomId == st.player[p].roomId IN
    IF roomId = None THEN st
    ELSE IF roomId \notin DOMAIN st.rooms THEN st
    ELSE IF ~st.player[p].isHost
    THEN WsSend(st, p, Msg("error", None, "Only host can start the game"))
    ELSE
      LET st1 == [st EXCEPT !.rooms[roomId].gameActive = TRUE,
                            !.rooms[roomId].calledNumbers = <<>>]
      IN Log(broadcastToRoom(st1, roomId, Msg("gameStarted", None, ""), None),
             "Game started in room")

\* a stopGame that is handled as a startGame
handleStopGameAsStart(st, p) == handleStartGame(st, p)

handleStopGame(st, p) ==
    LET roomId == st.player[p].roomId IN
    IF roomId = None THEN st
    ELSE IF roomId \notin DOMAIN st.rooms THEN st
    ELSE IF ~st.player[p].isHost
    THEN WsSend(st, p, Msg("error", None, "Only host can stop the game"))
    ELSE
      LET st1 == [st EXCEPT !.rooms[roomId].gameActive = FALSE]
      IN Log(broadcastToRoom(st1, roomId,
                             Msg("gameStopped", Len(st1.rooms[roomId].calledNumbers), ""),
                             None),
             "Game stopped in room")

handleWin(st, p) ==
    LET roomId == st.player[p].roomId IN
    IF roomId = None THEN st
    ELSE IF roomId \notin DOMAIN st.rooms THEN st
    ELSE Log(broadcastToRoom(st, roomId,
                             Msg("playerWon", Len(st.rooms[roomId].calledNumbers), ""), p),
             "Player won in room")

\* this.players.forEach: the registry iterates in insertion order, which is the
\* order of the ids
RECURSIVE SendAll(_, _, _, _, _)
SendAll(st, c, registry, m, exclude) ==
    IF c > NConn THEN st
    ELSE LET st1 == IF /\ c \in registry
                       /\ c # exclude
                       /\ st.player[c].connected
                       /\ st.readyState[c] = "OPEN"
                    THEN WsSend(st, c, m) ELSE st
         IN SendAll(st1, c + 1, registry, m, exclude)

broadcastToAll(st, registry, m, exclude) == SendAll(st, 1, registry, m, exclude)

handleChat(st, p, registry, text, roomId) ==
    IF text = "" THEN st
    ELSE IF roomId # None
    THEN broadcastToRoom(st, roomId, Msg("chatMessage", p, text), p)
    ELSE broadcastToAll(st, registry, Msg("globalChat", p, text), p)

\* a lookup that takes every registered target, connected or not
TargetRegistered(st, registry, targetPlayerId) == targetPlayerId \in registry

\* targetPlayer && targetPlayer.connected
TargetConnected(st, registry, targetPlayerId) ==
    targetPlayerId \in registry /\ st.player[targetPlayerId].connected

handleRTCRequest(st, p, registry, type, targetPlayerId) ==
    IF targetPlayerId = None
    THEN WsSend(st, p, Msg("error", None, "Target player ID required"))
    ELSE IF ~TargetConnected(st, registry, targetPlayerId)
    THEN WsSend(st, p, Msg("error", None, "Target player not found or disconnected"))
    ELSE Log(WsSend(st, targetPlayerId, Msg(type, p, "")), "RTC forwarded")

\* a close handler that leaves the record connected
handleDisconnectStillConnected(st, p) ==
    IF st.player[p].roomId # None THEN handleLeaveRoom(st, p, st.player[p].roomId) ELSE st

\* the synchronous part of handleDisconnect; the reap timeout is ReapTimer
handleDisconnect(st, p) ==
    LET st1 == [st EXCEPT !.player[p].connected = FALSE]
    IN IF st1.player[p].roomId # None
       THEN handleLeaveRoom(st1, p, st1.player[p].roomId)
       ELSE st1

\* ---------------------------------------------------------------- actions
\* const gameState = {...}: no game type, no game, isCalling true, no interval;
\* currentNumber and the display texts are <<>> for null and <<letter, number>>
NewGameState ==
    [gameType |-> "", calledNumbers |-> <<>>, gameActive |-> FALSE,
     isCalling |-> TRUE, callInterval |-> FALSE,
     calledNumbersDisplay |-> <<>>, currentNumber |-> <<>>]

\* callNextNumber is not running
NotCalling == [pc |-> "idle", number |-> None, from |-> ""]

Init ==
    /\ gameState = NewGameState
    /\ socket = "CONNECTING"
    /\ startTimeouts = 0
    /\ callNext = NotCalling
    /\ players = {}
    /\ player = [c \in Conn |-> [roomId |-> None, isHost |-> FALSE, connected |-> FALSE]]
    /\ readyState = [c \in Conn |-> "NONE"]
    /\ rooms = <<>>
    /\ timers = {}
    /\ nextPlayer = 1
    /\ nextRoom = 1
    /\ sent = <<>>
    /\ log = <<>>
    /\ last = Event("init", None, None, None)
    /\ running = TRUE

\* a handler's writes reach the server state
Commit(st, ev) ==
    /\ player' = st.player
    /\ rooms' = st.rooms
    /\ sent' = st.sent
    /\ log' = st.log
    /\ last' = ev
    /\ UNCHANGED <<running, clientVars>>

\* a message event is served only for a registered player whose socket is open
CanSend(p) == p \in players /\ readyState[p] = "OPEN"

\* wss.on('connection'), for the first `limit` connections
Connection(limit) ==
    /\ running
    /\ nextPlayer <= limit
    /\ LET p == nextPlayer IN
        /\ players' = players \cup {p}
        /\ readyState' = [readyState EXCEPT ![p] = "OPEN"]
        /\ nextPlayer' = nextPlayer + 1
        /\ LET st == [Store EXCEPT !.player[p] =
                        [roomId |-> None, isHost |-> FALSE, connected |-> TRUE]]
           IN Commit(WsSend(Log(st, "New player connected"), p, Msg("welcome", p, "")),
                     Event("connection", p, None, None))
    /\ UNCHANGED <<timers, nextRoom>>

CreateRoom(p, roomName, gameType, maxPlayers) ==
    /\ CanSend(p)
    /\ nextRoom <= MaxRooms
    /\ Commit(handleCreateRoom(Store, p, roomName, gameType, maxPlayers),
              Event("createRoom", p, None, maxPlayers))
    /\ nextRoom' = IF roomName = "" \/ gameType = "" THEN nextRoom ELSE nextRoom + 1
    /\ UNCHANGED <<players, readyState, timers, nextPlayer>>

JoinRoom(p, roomId) ==
    /\ CanSend(p)
    /\ Commit(handleJoinRoom(Store, p, roomId), Event("joinRoom", p, roomId, None))
    /\ UNCHANGED <<players, readyState, timers, nextPlayer, nextRoom>>

LeaveRoom(p, roomId) ==
    /\ CanSend(p)
    /\ Commit(handleLeaveRoom(Store, p, roomId), Event("leaveRoom", p, roomId, None))
    /\ UNCHANGED <<players, readyState, timers, nextPlayer, nextRoom>>

NumberCall(p, number) ==
    /\ CanSend(p)
    /\ Commit(handleNumberCall(Store, p, number), Event("numberCall", p, None, number))
    /\ UNCHANGED <<players, readyState, timers, nextPlayer, nextRoom>>

StartGame(p) ==
    /\ CanSend(p)
    /\ Commit(handleStartGame(Store, p), Event("startGame", p, None, None))
    /\ UNCHANGED <<players, readyState, timers, nextPlayer, nextRoom>>

StopGame(p) ==
    /\ CanSend(p)
    /\ Commit(handleStopGame(Store, p), Event("stopGame", p, None, None))
    /\ UNCHANGED <<players, readyState, timers, nextPlayer, nextRoom>>

Win(p) ==
    /\ CanSend(p)
    /\ Commit(handleWin(Store, p), Event("win", p, None, None))
    /\ UNCHANGED <<players, readyState, timers, nextPlayer, nextRoom>>

Chat(p, text, roomId) ==
    /\ CanSend(p)
    /\ Commit(handleChat(Store, p, players, text, roomId), Event("chat", p, roomId, None))
    /\ UNCHANGED <<players, readyState, timers, nextPlayer, nextRoom>>

RTCRequest(p, type, targetPlayerId) ==
    /\ CanSend(p)
    /\ Commit(handleRTCRequest(Store, p, players, type, targetPlayerId),
              Event(type, p, None, targetPlayerId))
    /\ UNCHANGED <<players, readyState, timers, nextPlayer, nextRoom>>

\* cleanupRooms on a room store; old holds the ids of the rooms whose createdAt
\* is before oneHourAgo
cleanupRooms(rs, old) ==
    [r \in {x \in DOMAIN rs : ~(Len(rs[x].players) = 0 /\ x \in old)} |-> rs[r]]

\* the room store of a BingoServer that has just been constructed
NewServerRooms == <<>>

\* the setInterval callback: it constructs a second BingoServer on PORT and
\* calls cleanupRooms on that one.  The listen of the second server fails, the
\* port being held by the first; its 'error' event has no listener, so the
\* process exits: the sockets close, the maps and the timers are gone.
PeriodicCleanup(old) ==
    /\ running
    /\ running' = FALSE
    /\ UNCHANGED clientVars
    /\ cleanupRooms(NewServerRooms, old) = NewServerRooms
    /\ rooms' = <<>>
    /\ players' = {}
    /\ player' = [c \in Conn |-> [roomId |-> None, isHost |-> FALSE, connected |-> FALSE]]
    /\ readyState' = [c \in Conn |-> IF readyState[c] = "NONE" THEN "NONE" ELSE "CLOSED"]
    /\ timers' = {}
    /\ sent' = <<>>
    /\ log' = <<>>
    /\ last' = Event("cleanup", None, None, old)
    /\ UNCHANGED <<nextPlayer, nextRoom>>

\* ws.on('message') for a frame that JSON.parse rejects
ParseError(p) ==
    /\ CanSend(p)
    /\ Commit(Log(Store, "Error parsing message"), Event("parseError", p, None, None))
    /\ UNCHANGED <<players, readyState, timers, nextPlayer, nextRoom>>

\* a message answered by the reply r
ReplyTo(st, p, r) == WsSend(st, p, r)

\* the default branch of the switch of handleMessage
handleUnknown(st, p, r) == Log(st, "Unknown message type")

\* handleMessage for a message whose type is no case of the switch
UnknownType(p) ==
    /\ CanSend(p)
    /\ Commit(handleUnknown(Store, p, Msg("error", None, "Unknown message type")),
              Event("unknown", p, None, None))
    /\ UNCHANGED <<players, readyState, timers, nextPlayer, nextRoom>>

\* ws.on('close'): the socket is CLOSED when the handler runs
Disconnect(p) ==
    /\ readyState[p] = "OPEN"
    /\ readyState' = [readyState EXCEPT ![p] = "CLOSED"]
    /\ IF p \in players
       THEN /\ Commit(handleDisconnect(
                        Log([Store EXCEPT !.readyState[p] = "CLOSED"],
                            "Player disconnected"), p),
                      Event("disconnect", p, None, None))
            /\ timers' = timers \cup {p}
       ELSE /\ Commit(Log(Store, "Player disconnected"), Event("disconnect", p, None, None))
            /\ UNCHANGED timers
    /\ UNCHANGED <<players, nextPlayer, nextRoom>>

\* the setTimeout callback of handleDisconnect, 30 s after the close
ReapTimer(p) ==
    /\ p \in timers
    /\ timers' = timers \ {p}
    /\ players' = IF p \in players /\ ~player[p].connected
                  THEN players \ {p} ELSE players
    /\ sent' = <<>>
    /\ log' = IF p \in players /\ ~player[p].connected
              THEN <<"Player removed from server">> ELSE <<>>
    /\ last' = Event("reap", p, None, None)
    /\ UNCHANGED <<player, readyState, rooms, nextPlayer, nextRoom, running, clientVars>>

\* res.status(status).json(...): the reply goes to the HTTP client, not to a
\* WebSocket
HttpReply(st, status) ==
    [st EXCEPT !.sent = Append(@, [to |-> None, msg |-> Msg("http", status, "")])]

\* app.post('/room/leave'): the HTTP route that takes a player out of a room
routeLeave(st, playerId, roomId) ==
    IF playerId = None \/ roomId = None THEN HttpReply(st, 400)
    ELSE IF playerId \notin players \/ roomId \notin DOMAIN st.rooms
    THEN HttpReply(st, 404)
    ELSE
      LET st0 == [st EXCEPT !.rooms[roomId].players = MapDelete(@, playerId),
                            !.player[playerId].roomId = None]
          room == st0.rooms[roomId]
          st3 ==
            IF Len(room.players) = 0
            THEN Log([st0 EXCEPT !.rooms = RoomsWithout(@, roomId)], "Room deleted (empty)")
            ELSE
              LET newHost == FirstValue(room.players)
                  st1 == IF room.hostId = playerId /\ newHost # None
                         THEN broadcastToRoom(
                                [st0 EXCEPT !.rooms[roomId].hostId = newHost,
                                            !.player[newHost].isHost = TRUE],
                                roomId, Msg("newHost", newHost, ""), None)
                         ELSE st0
              IN broadcastToRoom(st1, roomId, Msg("playerLeft", playerId, ""), None)
      IN Log(HttpReply(st3, 200), "Player left room")

\* a POST /room/leave request with the body {playerId, roomId}
PostRoomLeave(playerId, roomId) ==
    /\ running
    /\ Commit(routeLeave(Store, playerId, roomId),
              Event("POST /room/leave", playerId, roomId, None))
    /\ UNCHANGED <<players, readyState, timers, nextPlayer, nextRoom>>

\* the room/membership events: connection, createRoom, joinRoom, leaveRoom,
\* close and the reap timeout
Membership(limit, caps) ==
    \/ Connection(limit)
    \/ \E p \in Conn, roomName \in RoomNameInputs, gameType \in GameTypeInputs,
          maxPlayers \in caps : CreateRoom(p, roomName, gameType, maxPlayers)
    \/ \E p \in Conn, roomId \in RoomIdInputs : JoinRoom(p, roomId)
    \/ \E p \in Conn, roomId \in RoomIdInputs : LeaveRoom(p, roomId)
    \/ \E p \in Conn : Disconnect(p)
    \/ \E p \in Conn : ReapTimer(p)

\* the host-gated game events: numberCall, startGame, stopGame
Game ==
    \/ \E p \in Conn, number \in NumberInputs : NumberCall(p, number)
    \/ \E p \in Conn : StartGame(p)
    \/ \E p \in Conn : StopGame(p)

\* the events that only relay: win, chat, and the RTC signaling kinds
Relay ==
    \/ \E p \in Conn : Win(p)
    \/ \E p \in Conn, text \in ChatTextInputs, roomId \in RoomIdInputs : Chat(p, text, roomId)
    \/ \E p \in Conn, type \in RTCKinds, target \in Conn \cup {None} :
          RTCRequest(p, type, target)

\* the frames that reach no handler: unparseable ones and unknown types
Frames ==
    \/ \E p \in Conn : ParseError(p)
    \/ \E p \in Conn : UnknownType(p)

Next ==
    \/ Membership(NConn, MaxPlayersInputs) \/ Game \/ Relay \/ Frames
    \/ \E old \in SUBSET RoomId : PeriodicCleanup(old)
    \/ \E playerId \in Conn \cup {None}, roomId \in RoomIdInputs :
          PostRoomLeave(playerId, roomId)

Spec == Init /\ [][Next]_vars

\* Membership events alone.  No membership handler reads gameActive or
\* calledNumbers, and no game handler writes a player, a member map or a hostId,
\* so these behaviours show every membership state of the WebSocket protocol.
NextRooms == Membership(NConn, MaxPlayersInputs)

SpecRooms == Init /\ [][NextRooms]_vars

\* All events, for NGameConn connections and rooms of the default capacity.
NextGame == Membership(NGameConn, {DefaultMaxPlayers}) \/ Game

SpecGame == Init /\ [][NextGame]_vars

\* Membership events and the frames that reach no handler.
NextFrames == Membership(NGameConn, {DefaultMaxPlayers}) \/ Frames

SpecFrames == Init /\ [][NextFrames]_vars

\* Membership events with rooms of a game type that no client offers.
NextGameTypes ==
    \/ Membership(NGameConn, {DefaultMaxPlayers})
    \/ \E p \in Conn, roomName \in RoomNameInputs, gameType \in OtherGameTypeInputs :
          CreateRoom(p, roomName, gameType, DefaultMaxPlayers)

SpecGameTypes == Init /\ [][NextGameTypes]_vars

\* Membership events and the periodic cleanup.
NextCleanup ==
    \/ Membership(NGameConn, {DefaultMaxPlayers})
    \/ \E old \in SUBSET RoomId : PeriodicCleanup(old)

SpecCleanup == Init /\ [][NextCleanup]_vars

\* Rooms of the WebSocket protocol that hold one or two players.
NextCapacity == Membership(NConn, CapacityInputs)

SpecCapacity == Init /\ [][NextCapacity]_vars

\* Membership events and the HTTP route that leaves a room.
NextHttp ==
    \/ Membership(NGameConn, {DefaultMaxPlayers})
    \/ \E playerId \in Conn \cup {None}, roomId \in RoomIdInputs :
          PostRoomLeave(playerId, roomId)

SpecHttp == Init /\ [][NextHttp]_vars

\* Every event of the WebSocket protocol, for NConn connections of which at
\* most RelayRooms create a room, with the default capacity.
NextRelay ==
    /\ Membership(NConn, {DefaultMaxPlayers}) \/ Game \/ Relay
    /\ nextRoom' <= RelayRooms + 1

SpecRelay == Init /\ [][NextRelay]_vars

\* ------------------------------------- the relay at the end of part_001
\* The relay is a program of its own with its own players and rooms maps; its
\* behaviours use the same variables for them.  A player object has roomId and
\* isHost, a room has hostId, players, calledNumbers and gameActive.

\* what socket.send does on a socket that is CLOSED: the runtime either
\* discards the data or throws InvalidStateError
ClosedSendOutcomes == {"drop", "throw"}

relay_Store ==
    [players |-> players, player |-> player, rooms |-> rooms, readyState |-> readyState,
     sent |-> <<>>, threw |-> FALSE]

\* socket.send: throws on a CONNECTING socket
relay_send(st, q, m, closedSend) ==
    IF st.threw THEN st
    ELSE IF st.readyState[q] = "OPEN"
    THEN [st EXCEPT !.sent = Append(@, [to |-> q, msg |-> m])]
    ELSE IF st.readyState[q] = "CONNECTING" \/ closedSend = "throw"
    THEN [st EXCEPT !.threw = TRUE]
    ELSE st

RECURSIVE relay_sendEach(_, _, _, _)
relay_sendEach(st, members, m, closedSend) ==
    IF Len(members) = 0 THEN st
    ELSE relay_sendEach(relay_send(st, Head(members), m, closedSend), Tail(members),
                        m, closedSend)

\* room.players.forEach(p => p.socket.send(data))
relay_broadcast(st, roomId, m, closedSend) ==
    relay_sendEach(st, st.rooms[roomId].players, m, closedSend)

\* !(!room || !player.isHost)
relay_MayCall(st, p, roomId) == roomId \in DOMAIN st.rooms /\ st.player[p].isHost

\* handleMessage; msg is [type, roomId, number, targetPlayerId], and newRoomId
\* is the crypto.randomUUID() of a createRoom
relay_handleMessage(st, p, msg, newRoomId, closedSend) ==
    IF msg.type = "createRoom"
    THEN LET room == [hostId |-> p, players |-> <<p>>, calledNumbers |-> <<>>,
                      gameActive |-> FALSE]
             st1 == [st EXCEPT !.player[p].isHost = TRUE,
                               !.player[p].roomId = newRoomId,
                               !.rooms = RoomsWith(@, newRoomId, room)]
         IN relay_send(st1, p, Msg("roomCreated", newRoomId, ""), closedSend)
    ELSE IF msg.type = "joinRoom"
    THEN IF msg.roomId \notin DOMAIN st.rooms THEN st
         ELSE LET st1 == [st EXCEPT !.player[p].roomId = msg.roomId,
                                    !.rooms[msg.roomId].players = MapSet(@, p)]
              IN relay_broadcast(st1, msg.roomId, Msg("playerJoined", p, ""), closedSend)
    ELSE IF msg.type = "numberCall"
    THEN LET roomId == st.player[p].roomId IN
         IF ~relay_MayCall(st, p, roomId) THEN st
         ELSE LET st1 == [st EXCEPT !.rooms[roomId].calledNumbers = PushNumber(@, msg.number)]
              IN relay_broadcast(st1, roomId, Msg("numberCalled", msg.number, ""), closedSend)
    ELSE IF msg.type \in RTCKinds
    THEN IF msg.targetPlayerId \notin st.players THEN st
         ELSE relay_send(st, msg.targetPlayerId, Msg(msg.type, p, ""), closedSend)
    ELSE st

relay_handleDisconnect(st, p) ==
    LET st1 == [st EXCEPT !.players = @ \ {p}]
        roomId == st1.player[p].roomId
    IN IF roomId = None THEN st1
       ELSE IF roomId \notin DOMAIN st1.rooms THEN st1
       ELSE LET st2 == [st1 EXCEPT !.rooms[roomId].players = MapDelete(@, p)]
            IN IF Len(st2.rooms[roomId].players) = 0
               THEN [st2 EXCEPT !.rooms = RoomsWithout(@, roomId)]
               ELSE st2

\* an exception that no handler catches ends the process: its sockets close
\* and its maps are gone
relay_Exit(ev) ==
    /\ running' = FALSE
    /\ UNCHANGED clientVars
    /\ readyState' = [c \in Conn |-> IF readyState[c] = "NONE" THEN "NONE" ELSE "CLOSED"]
    /\ players' = {}
    /\ player' = [c \in Conn |-> [roomId |-> None, isHost |-> FALSE, connected |-> FALSE]]
    /\ rooms' = <<>>
    /\ sent' = <<>>
    /\ last' = ev

\* a handler's writes reach the maps, unless it threw
relay_Commit(st, ev) ==
    IF st.threw
    THEN relay_Exit(ev)
    ELSE /\ players' = st.players
         /\ player' = st.player
         /\ rooms' = st.rooms
         /\ sent' = st.sent
         /\ last' = ev
         /\ UNCHANGED <<running, readyState, clientVars>>

\* the serve callback: the upgraded socket is CONNECTING, the player registered
relay_Serve(limit) ==
    /\ running
    /\ nextPlayer <= limit
    /\ LET p == nextPlayer IN
        /\ players' = players \cup {p}
        /\ player' = [player EXCEPT ![p] = [roomId |-> None, isHost |-> FALSE,
                                            connected |-> FALSE]]
        /\ readyState' = [readyState EXCEPT ![p] = "CONNECTING"]
        /\ nextPlayer' = nextPlayer + 1
        /\ sent' = <<>>
        /\ last' = Event("serve", p, None, None)
    /\ UNCHANGED <<rooms, timers, nextRoom, log, running, clientVars>>

\* socket.onopen
relay_Open(p) ==
    /\ running
    /\ readyState[p] = "CONNECTING"
    /\ readyState' = [readyState EXCEPT ![p] = "OPEN"]
    /\ sent' = <<[to |-> p, msg |-> Msg("welcome", p, "")]>>
    /\ last' = Event("open", p, None, None)
    /\ UNCHANGED <<players, player, rooms, timers, nextPlayer, nextRoom, log, running, clientVars>>

\* the messages a client sends, by type
relay_Messages ==
    {[type |-> "createRoom", roomId |-> None, number |-> None, targetPlayerId |-> None]}
    \cup {[type |-> "joinRoom", roomId |-> r, number |-> None, targetPlayerId |-> None] :
             r \in RoomIdInputs}
    \cup {[type |-> "numberCall", roomId |-> None, number |-> n, targetPlayerId |-> None] :
             n \in NumberInputs}
    \cup {[type |-> k, roomId |-> None, number |-> None, targetPlayerId |-> t] :
             k \in RTCKinds, t \in Conn \cup {None}}

\* socket.onmessage for a frame that JSON.parse accepts
relay_Message(p, msg, closedSend) ==
    /\ running
    /\ readyState[p] = "OPEN"
    /\ msg.type = "createRoom" => nextRoom <= MaxRooms
    /\ msg.type = "numberCall" =>
          \A r \in DOMAIN rooms : Len(rooms[r].calledNumbers) < MaxCalls
    /\ relay_Commit(relay_handleMessage(relay_Store, p, msg, nextRoom, closedSend),
                    Event(msg.type, p, msg.roomId,
                          IF msg.type = "numberCall" THEN msg.number ELSE msg.targetPlayerId))
    /\ nextRoom' = IF msg.type = "createRoom" THEN nextRoom + 1 ELSE nextRoom
    /\ UNCHANGED <<timers, nextPlayer, log>>

\* socket.onmessage for a frame that JSON.parse rejects: the SyntaxError leaves
\* the handler uncaught
relay_ParseError(p) ==
    /\ running
    /\ readyState[p] = "OPEN"
    /\ relay_Exit(Event("parseError", p, None, None))
    /\ UNCHANGED <<timers, nextPlayer, nextRoom, log>>

\* socket.onclose
relay_Close(p) ==
    /\ running
    /\ readyState[p] = "OPEN"
    /\ LET st == relay_handleDisconnect(relay_Store, p) IN
        /\ players' = st.players
        /\ player' = st.player
        /\ rooms' = st.rooms
        /\ sent' = <<>>
    /\ readyState' = [readyState EXCEPT ![p] = "CLOSED"]
    /\ last' = Event("close", p, None, None)
    /\ UNCHANGED <<timers, nextPlayer, nextRoom, log, running, clientVars>>

relay_Next ==
    \/ relay_Serve(NGameConn)
    \/ \E p \in Conn : relay_Open(p)
    \/ \E p \in Conn, msg \in relay_Messages, closedSend \in ClosedSendOutcomes :
          relay_Message(p, msg, closedSend)
    \/ \E p \in Conn : relay_ParseError(p)
    \/ \E p \in Conn : relay_Close(p)

relay_Spec == Init /\ [][relay_Next]_vars

\* ------------------------------------------------------- src/server.ts
\* The server of src/server.ts is a program of its own with its own players
\* and rooms maps and two message types, JOIN_ROOM and CALL_NUMBER; it is
\* modelled on the same variables, and `timers` stays empty.

\* broadcastRoom: every member whose socket is OPEN is sent the message
srv_broadcastRoom(st, roomId, m) ==
    [st EXCEPT !.sent = SendEach(@, st.readyState, st.rooms[roomId].players, m, None)]

\* Array.from(room.players.values()).map(p => ({id, name, isHost}))
srv_PlayerList(st, roomId) ==
    [i \in 1..Len(st.rooms[roomId].players) |->
        <<st.rooms[roomId].players[i], st.player[st.rooms[roomId].players[i]].isHost>>]

\* a JOIN_ROOM that names a room of the store stays in the store
srv_RoomGiven(st, roomId) == roomId # None /\ roomId \in DOMAIN st.rooms

\* handleJoinRoom; newRoomId is the crypto.randomUUID() of a new room
srv_handleJoinRoom(st, p, roomId, newRoomId) ==
    LET st1 == IF srv_RoomGiven(st, roomId) THEN st
               ELSE [st EXCEPT !.rooms = RoomsWith(@, newRoomId,
                                   [hostId |-> p, players |-> <<>>,
                                    calledNumbers |-> <<>>, gameActive |-> FALSE]),
                               !.player[p].isHost = TRUE]
        id == IF srv_RoomGiven(st, roomId) THEN roomId ELSE newRoomId
        st2 == [st1 EXCEPT !.player[p].roomId = id,
                           !.rooms[id].players = MapSet(@, p)]
    IN srv_broadcastRoom(st2, id,
           [Msg("ROOM_UPDATE", id, "") EXCEPT !.data = srv_PlayerList(st2, id)])

\* handleCallNumber
srv_handleCallNumber(st, p, number) ==
    LET roomId == st.player[p].roomId IN
    IF roomId = None THEN st
    ELSE IF roomId \notin DOMAIN st.rooms THEN st
    ELSE LET st1 == [st EXCEPT !.rooms[roomId].calledNumbers = PushNumber(@, number)]
         IN srv_broadcastRoom(st1, roomId,
                [Msg("CALL_NUMBER", number, "") EXCEPT
                    !.data = st1.rooms[roomId].calledNumbers])

\* the body of socket.onclose after players.delete(playerId)
srv_handleClose(st, p) ==
    LET roomId == st.player[p].roomId IN
    IF roomId = None THEN st
    ELSE IF roomId \notin DOMAIN st.rooms THEN st
    ELSE srv_broadcastRoom([st EXCEPT !.rooms[roomId].players = MapDelete(@, p)],
                           roomId, Msg("PLAYER_LEFT", p, ""))

\* the serve callback: the upgraded socket is CONNECTING, the player registered
srv_Serve(limit) ==
    /\ nextPlayer <= limit
    /\ LET p == nextPlayer IN
        /\ players' = players \cup {p}
        /\ player' = [player EXCEPT ![p] = [roomId |-> None, isHost |-> FALSE,
                                            connected |-> FALSE]]
        /\ readyState' = [readyState EXCEPT ![p] = "CONNECTING"]
        /\ nextPlayer' = nextPlayer + 1
        /\ sent' = <<>>
        /\ log' = <<>>
        /\ last' = Event("serve", p, None, None)
    /\ UNCHANGED <<rooms, timers, nextRoom, running, clientVars>>

\* socket.onopen
srv_Open(p) ==
    /\ readyState[p] = "CONNECTING"
    /\ readyState' = [readyState EXCEPT ![p] = "OPEN"]
    /\ sent' = <<[to |-> p, msg |-> Msg("welcome", p, "")]>>
    /\ log' = <<"Player connected">>
    /\ last' = Event("open", p, None, None)
    /\ UNCHANGED <<players, player, rooms, timers, nextPlayer, nextRoom, running, clientVars>>

\* socket.onmessage for {type: "JOIN_ROOM", roomId}
srv_JoinRoom(p, roomId) ==
    /\ readyState[p] = "OPEN"
    /\ ~srv_RoomGiven(Store, roomId) => nextRoom <= MaxRooms
    /\ Commit(Log(srv_handleJoinRoom(Store, p, roomId, nextRoom), "Message from player"),
              Event("JOIN_ROOM", p, roomId, None))
    /\ nextRoom' = IF srv_RoomGiven(Store, roomId) THEN nextRoom ELSE nextRoom + 1
    /\ UNCHANGED <<players, readyState, timers, nextPlayer>>

\* socket.onmessage for {type: "CALL_NUMBER", number}
srv_CallNumber(p, number) ==
    /\ readyState[p] = "OPEN"
    /\ \A r \in DOMAIN rooms : Len(rooms[r].calledNumbers) < MaxCalls
    /\ Commit(Log(srv_handleCallNumber(Store, p, number), "Message from player"),
              Event("CALL_NUMBER", p, None, number))
    /\ UNCHANGED <<players, readyState, timers, nextPlayer, nextRoom>>

\* socket.onmessage for a frame that JSON.parse rejects: caught, logged
srv_InvalidJson(p) ==
    /\ readyState[p] = "OPEN"
    /\ Commit(Log(Store, "Invalid JSON"), Event("invalidJson", p, None, None))
    /\ UNCHANGED <<players, readyState, timers, nextPlayer, nextRoom>>

\* socket.onmessage for a message of any other type: the default case
srv_UnknownType(p) ==
    /\ readyState[p] = "OPEN"
    /\ Commit(Log(Log(Store, "Message from player"), "Unknown message type"),
              Event("unknown", p, None, None))
    /\ UNCHANGED <<players, readyState, timers, nextPlayer, nextRoom>>

\* socket.onclose: the socket is CLOSED when the handler runs
srv_Close(p) ==
    /\ readyState[p] = "OPEN"
    /\ readyState' = [readyState EXCEPT ![p] = "CLOSED"]
    /\ players' = players \ {p}
    /\ Commit(srv_handleClose(Log([Store EXCEPT !.readyState[p] = "CLOSED"],
                                  "Player disconnected"), p),
              Event("close", p, None, None))
    /\ UNCHANGED <<timers, nextPlayer, nextRoom>>

srv_Next ==
    \/ srv_Serve(NGameConn)
    \/ \E p \in Conn : srv_Open(p)
    \/ \E p \in Conn, roomId \in RoomIdInputs : srv_JoinRoom(p, roomId)
    \/ \E p \in Conn, number \in NumberInputs : srv_CallNumber(p, number)
    \/ \E p \in Conn : srv_InvalidJson(p)
    \/ \E p \in Conn : srv_UnknownType(p)
    \/ \E p \in Conn : srv_Close(p)

srv_Spec == Init /\ [][srv_Next]_vars

\* ------------------------------------------------------- src/script.js
\* The browser client: the parts of script.js that read or write
\* gameState.calledNumbers, gameActive, isCalling and the calling interval.
\* JavaScript runs one callback at a time, so while callNextNumber is in its
\* loop no other callback runs.

\* boardTypes: the range of each board type
BoardRange ==
    [t \in {"75ball", "90ball", "30ball", "50ball", "pattern", "coverall"} |->
        CASE t = "75ball" -> 75 [] t = "90ball" -> 90 [] t = "30ball" -> 30
          [] t = "50ball" -> 50 [] t = "pattern" -> 75 [] t = "coverall" -> 90]

\* type.range, cut down to ClientMaxRange
TypeRange(t) == IF BoardRange[t] > ClientMaxRange THEN ClientMaxRange ELSE BoardRange[t]

\* the column size of the lettered board types
ColumnSize(t) == IF t \in {"75ball", "pattern"} THEN 15 ELSE 10

\* 'BINGO'[Math.min(Math.floor((number - 1) / columnSize), 4)]
Letter(t, number) ==
    LET columnIndex == (number - 1) \div ColumnSize(t)
    IN <<"B", "I", "N", "G", "O">>[(IF columnIndex > 4 THEN 4 ELSE columnIndex) + 1]

\* displayText: `${letter}-${number}` for the lettered types, else the digits
DisplayText(t, number) ==
    IF t \in {"75ball", "50ball", "pattern"} THEN <<Letter(t, number), number>>
    ELSE <<"", number>>

\* moveNumberToBar: unshift, and pop beyond maxDisplayNumbers
moveNumberToBar(gs, text) ==
    LET d == <<text>> \o gs.calledNumbersDisplay
    IN [gs EXCEPT !.calledNumbersDisplay =
            IF Len(d) > MaxDisplayNumbers THEN SubSeq(d, 1, Len(d) - 1) ELSE d]

\* stopCalling
stopCalling(gs) == [gs EXCEPT !.isCalling = FALSE, !.callInterval = FALSE]

\* sendMessage: the data goes out when the socket is OPEN
sendMessage(m) == IF socket = "OPEN" THEN <<[to |-> None, msg |-> m]>> ELSE <<>>

\* a client callback that ran to its end with the state gs
client_Done(gs, out, ev) ==
    /\ gameState' = gs
    /\ sent' = out
    /\ log' = <<>>
    /\ last' = ev
    /\ UNCHANGED <<players, player, readyState, rooms, timers, nextPlayer, nextRoom, running>>

\* socket.onopen
client_SocketOpen ==
    /\ callNext.pc = "idle"
    /\ socket = "CONNECTING"
    /\ socket' = "OPEN"
    /\ client_Done(gameState, <<[to |-> None, msg |-> Msg("join", None, "")]>>,
                   Event("onopen", None, None, None))
    /\ UNCHANGED <<startTimeouts, callNext>>

\* socket.onclose and the initWebSocket it schedules
client_SocketClose ==
    /\ callNext.pc = "idle"
    /\ socket = "OPEN"
    /\ socket' = "CONNECTING"
    /\ client_Done(gameState, <<>>, Event("onclose", None, None, None))
    /\ UNCHANGED <<startTimeouts, callNext>>

\* card.onclick of a board type card
client_SelectType(t) ==
    /\ callNext.pc = "idle"
    /\ client_Done([gameState EXCEPT !.gameType = t], <<>>,
                   Event("selectType", None, None, None))
    /\ UNCHANGED <<socket, startTimeouts, callNext>>

\* startNewGame, from showPage(3) and continueGame; the game page is reached
\* with a board type chosen
client_StartNewGame ==
    /\ callNext.pc = "idle"
    /\ gameState.gameType # ""
    /\ startTimeouts < MaxTimeouts
    /\ startTimeouts' = startTimeouts + 1
    /\ client_Done(stopCalling([gameState EXCEPT !.gameActive = TRUE,
                                                 !.calledNumbers = <<>>,
                                                 !.calledNumbersDisplay = <<>>,
                                                 !.currentNumber = <<>>]),
                   <<>>, Event("startNewGame", None, None, None))
    /\ UNCHANGED <<socket, callNext>>

\* callNextNumber up to its loop, called with the state gs: it returns at
\* once when no game is active or calling is off, else it enters the loop
client_Enter(gs, from, ev) ==
    IF ~gs.gameActive \/ ~gs.isCalling
    THEN /\ client_Done(IF from = "start" THEN [gs EXCEPT !.callInterval = TRUE] ELSE gs,
                        <<>>, ev)
         /\ callNext' = NotCalling
    ELSE /\ client_Done(gs, <<>>, ev)
         /\ callNext' = [pc |-> "loop", number |-> None, from |-> from]

\* startAutoCalling, as the timeout callback of startNewGame
client_StartTimeout ==
    /\ callNext.pc = "idle"
    /\ startTimeouts > 0
    /\ startTimeouts' = startTimeouts - 1
    /\ client_Enter([gameState EXCEPT !.isCalling = TRUE], "start",
                    Event("startAutoCalling", None, None, None))
    /\ UNCHANGED socket

\* toggleCalling, the click on the call button
client_ToggleCalling ==
    /\ callNext.pc = "idle"
    /\ IF gameState.isCalling
       THEN /\ client_Done(stopCalling(gameState), <<>>,
                           Event("toggleCalling", None, None, None))
            /\ UNCHANGED callNext
       ELSE client_Enter([gameState EXCEPT !.isCalling = TRUE], "start",
                         Event("toggleCalling", None, None, None))
    /\ UNCHANGED <<socket, startTimeouts>>

\* the setInterval callback
client_IntervalTick ==
    /\ callNext.pc = "idle"
    /\ gameState.callInterval
    /\ client_Enter(gameState, "interval", Event("interval", None, None, None))
    /\ UNCHANGED <<socket, startTimeouts>>

\* one pass of the do-while loop of callNextNumber with Math.random() giving
\* `number`, and the rest of callNextNumber when the loop ends
client_Draw(number) ==
    /\ callNext.pc = "loop"
    /\ number \in 1..TypeRange(gameState.gameType)
    /\ IF Includes(gameState.calledNumbers, number)
       THEN /\ client_Done(gameState, <<>>, Event("draw", None, None, number))
            /\ callNext' = [callNext EXCEPT !.number = number]
       ELSE LET text == DisplayText(gameState.gameType, number)
                gs1 == [gameState EXCEPT !.calledNumbers = PushNumber(@, number)]
                gs2 == IF gs1.currentNumber # <<>>
                       THEN moveNumberToBar(gs1, gs1.currentNumber) ELSE gs1
                gs3 == [gs2 EXCEPT !.currentNumber = text]
                gs4 == IF callNext.from = "start"
                       THEN [gs3 EXCEPT !.callInterval = TRUE] ELSE gs3
            IN /\ client_Done(gs4, sendMessage([Msg("numberCall", number, "")
                                                  EXCEPT !.data = text]),
                              Event("numberCall", None, None, number))
               /\ callNext' = NotCalling
    /\ UNCHANGED <<socket, startTimeouts>>

\* handleNumberCalled, for a numberCalled message of the server
client_NumberCalled(number) ==
    /\ callNext.pc = "idle"
    /\ socket = "OPEN"
    /\ Len(gameState.calledNumbers) < MaxCalled
    /\ client_Done(IF ~gameState.gameActive THEN gameState
                   ELSE moveNumberToBar(
                          [gameState EXCEPT !.calledNumbers = PushNumber(@, number)],
                          <<"", number>>),
                   <<>>, Event("numberCalled", None, None, number))
    /\ UNCHANGED <<socket, startTimeouts, callNext>>

\* the calledNumbers lists a gameState message carries
CalledInputs == UNION {[1..k -> 1..ClientMaxRange] : k \in 0..ClientMaxRange}

\* updateGameState, for a gameState message of the server
client_UpdateGameState(called) ==
    /\ callNext.pc = "idle"
    /\ socket = "OPEN"
    /\ client_Done([gameState EXCEPT !.calledNumbers = called], <<>>,
                   Event("gameState", None, None, None))
    /\ UNCHANGED <<socket, startTimeouts, callNext>>

\* announceWin; `win` is what calculateWin finds on the board
client_AnnounceWin(win) ==
    /\ callNext.pc = "idle"
    /\ IF gameState.gameActive /\ win
       THEN client_Done(stopCalling(gameState), sendMessage(Msg("win", None, "")),
                        Event("announceWin", None, None, None))
       ELSE client_Done(gameState, <<>>, Event("announceWin", None, None, None))
    /\ UNCHANGED <<socket, startTimeouts, callNext>>

client_Next ==
    \/ client_SocketOpen
    \/ client_SocketClose
    \/ \E t \in ClientGameTypes : client_SelectType(t)
    \/ client_StartNewGame
    \/ client_StartTimeout
    \/ client_ToggleCalling
    \/ client_IntervalTick
    \/ \E number \in 1..ClientMaxRange : client_Draw(number)
    \/ \E number \in 1..ClientMaxRange : client_NumberCalled(number)
    \/ \E called \in CalledInputs : client_UpdateGameState(called)
    \/ \E win \in BOOLEAN : client_AnnounceWin(win)

client_Spec == Init /\ [][client_Next]_vars

\* ------------------------------------------------------------------ claims
Members(r) == Range(rooms[r].players)

\* the messages of kind `type` carrying `arg` that `out` holds for connection q
Received(out, q, type, arg) ==
    {i \in 1..Len(out) : out[i].to = q /\ out[i].msg.type = type /\ out[i].msg.arg = arg}

ErrorsTo(out, q) == {i \in 1..Len(out) : out[i].to = q /\ out[i].msg.type = "error"}

\* the place of member q in a member map's insertion order
Pos(s, q) == CHOOSE i \in 1..Len(s) : s[i] = q

GameOps == {"numberCall", "startGame", "stopGame"}

\* C1: a numberCall, startGame or stopGame from connection p changes a room's
\* calledNumbers or gameActive only if p is that room's hostId at that moment;
\* when p is not the host of its room, p gets an error reply, no room or player
\* state changes and nothing is sent to anyone else.
C1_OnlyHostMutatesGame ==
    [][last'.op \in GameOps =>
        LET p == last'.p
            r0 == player[p].roomId
        IN /\ \A r \in DOMAIN rooms :
                (\/ r \notin DOMAIN rooms'
                 \/ rooms'[r].calledNumbers # rooms[r].calledNumbers
                 \/ rooms'[r].gameActive # rooms[r].gameActive) => rooms[r].hostId = p
           /\ (r0 \in DOMAIN rooms /\ rooms[r0].hostId # p) =>
                /\ ErrorsTo(sent', p) # {}
                /\ rooms' = rooms
                /\ player' = player
                /\ \A i \in 1..Len(sent') : sent'[i].to = p]_vars

\* C2: every room with at least one member has exactly one member whose isHost
\* flag is true.
C2_ExactlyOneHostFlag ==
    \A r \in DOMAIN rooms :
        Len(rooms[r].players) >= 1 =>
            Cardinality({q \in Members(r) : player[q].isHost}) = 1

\* C3: every room's hostId is a member of the room, is in the registry and is
\* connected.
C3_HostIdLive ==
    \A r \in DOMAIN rooms :
        /\ rooms[r].hostId \in Members(r)
        /\ rooms[r].hostId \in players
        /\ player[rooms[r].hostId].connected

\* C4: for any client-supplied maxPlayers, every room has between 0 and
\* maxPlayers members.
C4_WithinCapacity ==
    \A r \in DOMAIN rooms :
        0 <= Len(rooms[r].players) /\ Len(rooms[r].players) <= rooms[r].maxPlayers

\* C5: no connection is in the member map of two rooms at once.
C5_AtMostOneRoom ==
    \A c \in Conn : Cardinality({r \in DOMAIN rooms : c \in Members(r)}) <= 1

\* C6: no state between two handlers holds a room with zero members: the
\* handler that removes a room's last member also removes the room.
C6_NoEmptyRoom ==
    \A r \in DOMAIN rooms : Len(rooms[r].players) > 0

\* C6 witness: a leaveRoom has just removed the only member of room 1, and
\* deleted the room.
C6_Witness ==
    /\ last = Event("leaveRoom", 1, 1, None)
    /\ log = <<"Room deleted (empty)", "Player left room">>
    /\ 1 \notin DOMAIN rooms

\* C7: when the host of a room disconnects while at least two other members
\* remain, then after the disconnect handler exactly one remaining member has
\* isHost, it is the room's hostId, and every remaining member with an open
\* socket was sent exactly one newHost naming it.
C7_HostHandoff ==
    [][last'.op = "disconnect" =>
        LET p == last'.p IN
        \A r \in DOMAIN rooms :
            (rooms[r].hostId = p /\ Cardinality(Members(r) \ {p}) >= 2) =>
                /\ r \in DOMAIN rooms'
                /\ LET remaining == Range(rooms'[r].players) \ {p}
                       h == rooms'[r].hostId
                   IN /\ {q \in remaining : player'[q].isHost} = {h}
                      /\ h \in remaining
                      /\ \A q \in remaining :
                            readyState'[q] = "OPEN" =>
                                Cardinality(Received(sent', q, "newHost", h)) = 1]_vars

\* C8: when the host leaves a room (leaveRoom, the auto-leave of joinRoom, or
\* a disconnect) and members remain, the new host is the remaining member that
\* is first in the insertion order of the room's member map.
C8_EarliestJoinedBecomesHost ==
    [][\A r \in DOMAIN rooms \cap DOMAIN rooms' :
          (\/ rooms[r].hostId \notin Range(rooms'[r].players)
           \/ rooms'[r].hostId # rooms[r].hostId) =>
              LET before == rooms[r].players
                  h == rooms'[r].hostId
              IN /\ h \in Range(rooms'[r].players)
                 /\ h \in Range(before)
                 /\ \A q \in Range(rooms'[r].players) :
                       q \in Range(before) /\ Pos(before, h) <= Pos(before, q)]_vars

\* C8 witness: connection 1 created room 1, connection 3 joined before
\* connection 2, and the host 1 has just left: 3 is the host, not 2.
C8_Witness ==
    /\ last.op \in {"leaveRoom", "disconnect"}
    /\ last.p = 1
    /\ 1 \in DOMAIN rooms
    /\ rooms[1].players = <<3, 2>>
    /\ rooms[1].hostId = 3
    /\ Received(sent, 2, "newHost", 3) # {}

\* C9: a numberCall from the host with a number already in calledNumbers is
\* rejected: the sender gets a Duplicate error, calledNumbers is unchanged and
\* no numberCalled is broadcast; a successful call lengthens calledNumbers by
\* exactly 1.
C9_DuplicateRejected ==
    [][last'.op = "numberCall" =>
        LET p == last'.p
            n == last'.arg
            r == player[p].roomId
        IN (r \in DOMAIN rooms /\ rooms[r].hostId = p /\ player[p].isHost) =>
              /\ r \in DOMAIN rooms'
              /\ IF n \in Range(rooms[r].calledNumbers)
                 THEN /\ ErrorsTo(sent', p) # {}
                      /\ rooms'[r].calledNumbers = rooms[r].calledNumbers
                      /\ \A i \in 1..Len(sent') : sent'[i].msg.type # "numberCalled"
                 ELSE Len(rooms'[r].calledNumbers) = Len(rooms[r].calledNumbers) + 1]_vars

\* C10: no room's calledNumbers holds the same value twice.
C10_CalledNumbersUnique ==
    \A r \in DOMAIN rooms :
        \A i, j \in 1..Len(rooms[r].calledNumbers) :
            rooms[r].calledNumbers[i] = rooms[r].calledNumbers[j] => i = j

\* C10 witness: the host of room 1 has just called number 1 again, after 1 and
\* 2 were called; calledNumbers still holds each once.
C10_Witness ==
    /\ last.op = "numberCall"
    /\ last.arg = 1
    /\ log = <<"Number called in room">>
    /\ player[last.p].roomId = 1
    /\ 1 \in DOMAIN rooms
    /\ rooms[1].calledNumbers = <<1, 2>>

\* C11: across every step a room's calledNumbers stays the same, is extended by
\* exactly one element at the end (by a numberCall, with the number called), or
\* is reset to empty (by a startGame); no join, leave, disconnect, stopGame,
\* chat, win or signaling message removes or reorders an entry.
C11_CalledNumbersGrowOrReset ==
    [][\A r \in DOMAIN rooms \cap DOMAIN rooms' :
          LET old == rooms[r].calledNumbers
              new == rooms'[r].calledNumbers
          IN \/ new = old
             \/ /\ last'.op = "numberCall"
                /\ Len(new) = Len(old) + 1
                /\ SubSeq(new, 1, Len(old)) = old
                /\ new[Len(new)] = last'.arg
             \/ /\ last'.op = "startGame"
                /\ new = <<>>]_vars

\* C11 witness: number 1 has just been called in room 1 after number 2, and
\* stands behind it.
C11_Witness ==
    /\ last.op = "numberCall"
    /\ last.arg = 1
    /\ 1 \in DOMAIN rooms
    /\ rooms[1].calledNumbers = <<2, 1>>
    /\ Len(sent) > 0

\* C12: a startGame that the server accepts sets the room's gameActive to true
\* and its calledNumbers to empty; an accepted stopGame sets gameActive to false
\* and keeps calledNumbers; neither changes the membership or hostId of the
\* room, any other room, or any player.
C12_StartStopTouchOnlyGameFields ==
    [][last'.op \in {"startGame", "stopGame"} =>
        LET p == last'.p
            r == player[p].roomId
        IN (r \in DOMAIN rooms /\ player[p].isHost) =>
              /\ player' = player
              /\ rooms' = IF last'.op = "startGame"
                          THEN [rooms EXCEPT ![r].gameActive = TRUE,
                                             ![r].calledNumbers = <<>>]
                          ELSE [rooms EXCEPT ![r].gameActive = FALSE]]_vars

\* C12 witness: the host of room 1 has just stopped its game with numbers 1 and
\* 2 called, while room 2 has a game running.
C12_Witness ==
    /\ last.op = "stopGame"
    /\ log = <<"Game stopped in room">>
    /\ DOMAIN rooms = {1, 2}
    /\ player[last.p].roomId = 1
    /\ rooms[1].hostId = last.p
    /\ ~rooms[1].gameActive
    /\ rooms[1].calledNumbers = <<1, 2>>
    /\ rooms[2].gameActive

\* C13 as stated: a joinRoom sent by a connection that is a member of a
\* different room fails: the sender gets an error, stays a member of its room
\* and is not added to the requested room.
C13_JoinWhileInRoomFails ==
    [][last'.op = "joinRoom" =>
        LET p == last'.p
            roomId == last'.roomId
        IN \A cur \in DOMAIN rooms :
              (cur # roomId /\ p \in Members(cur)) =>
                 /\ ErrorsTo(sent', p) # {}
                 /\ cur \in DOMAIN rooms' /\ p \in Range(rooms'[cur].players)
                 /\ roomId \in DOMAIN rooms' => p \notin Range(rooms'[roomId].players)]_vars

\* C13 amended: a joinRoom sent by a connection whose roomId names a different
\* room than the one requested, when the requested room exists and is not full,
\* first takes the sender out of the room its roomId names, as a leaveRoom
\* does (the room is deleted if it empties, its open members are told
\* playerLeftRoom otherwise), then adds the sender to the requested room and
\* sends it one roomJoined and no error.
C13_JoinLeavesCurrentRoom ==
    [][last'.op = "joinRoom" =>
        LET p == last'.p
            roomId == last'.roomId
            cur == player[p].roomId
        IN (/\ cur # None /\ cur # roomId
            /\ roomId \in DOMAIN rooms
            /\ Len(rooms[roomId].players) < rooms[roomId].maxPlayers) =>
              /\ ErrorsTo(sent', p) = {}
              /\ Cardinality(Received(sent', p, "roomJoined", roomId)) = 1
              /\ roomId \in DOMAIN rooms'
              /\ p \in Range(rooms'[roomId].players)
              /\ player'[p].roomId = roomId
              /\ cur \in DOMAIN rooms =>
                    IF Members(cur) \subseteq {p}
                    THEN cur \notin DOMAIN rooms'
                    ELSE /\ cur \in DOMAIN rooms'
                         /\ Range(rooms'[cur].players) = Members(cur) \ {p}
                         /\ \A q \in Members(cur) \ {p} :
                               readyState[q] = "OPEN" =>
                                  Received(sent', q, "playerLeftRoom", p) # {}]_vars

\* C13 witness: connection 1, host of room 1 with member 3, has just joined
\* room 2; room 1 is left to 3 and room 2 holds its creator 2 and then 1.
C13_Witness ==
    /\ last = Event("joinRoom", 1, 2, None)
    /\ log = <<"Player left room", "Player joined room">>
    /\ DOMAIN rooms = {1, 2}
    /\ rooms[1].players = <<3>>
    /\ rooms[1].hostId = 3
    /\ rooms[2].players = <<2, 1>>
    /\ player[1].roomId = 2

\* C14: a leaveRoom naming a room of which the sender is not a member is a
\* no-op: no player's roomId or isHost changes, no room's membership or hostId
\* changes, the set of rooms is the same, and nothing is sent.
C14_LeaveOfNonMemberIsNoOp ==
    [][last'.op = "leaveRoom" =>
        LET p == last'.p
            roomId == last'.roomId
        IN (roomId \notin DOMAIN rooms \/ p \notin Members(roomId)) =>
              /\ player' = player
              /\ rooms' = rooms
              /\ sent' = <<>>]_vars

\* C15: after the close handler has run for a connection, the connection is a
\* member of no room, whatever it did before; and the cleanup for a connection
\* that is already a member of no room changes no room and sends nothing.
C15_CloseLeavesEveryRoom ==
    [][last'.op = "disconnect" =>
        LET p == last'.p
        IN /\ \A r \in DOMAIN rooms' : p \notin Range(rooms'[r].players)
           /\ (\A r \in DOMAIN rooms : p \notin Members(r)) =>
                 (rooms' = rooms /\ sent' = <<>>)]_vars

\* a room that was created and whose last member has left
Gone(r) == r < nextRoom /\ (r \notin DOMAIN rooms \/ Len(rooms[r].players) = 0)

C17_NumberCalledReachesAllMembers ==
    [][last'.op = "numberCall" =>
        LET p == last'.p
            n == last'.arg
            r == player[p].roomId
        IN (/\ r \in DOMAIN rooms
            /\ rooms[r].hostId = p
            /\ player[p].isHost
            /\ n \notin Range(rooms[r].calledNumbers)) =>
              \A q \in Members(r) :
                  readyState[q] = "OPEN" => Received(sent', q, "numberCalled", n) # {}]_vars

\* the positions in out of the roomJoined messages to q
RoomJoinedTo(out, q) ==
    {i \in 1..Len(out) : out[i].to = q /\ out[i].msg.type = "roomJoined"}

\* C18: on a successful joinRoom the joiner is sent exactly one roomJoined, whose
\* hostId, player count, calledNumbers and gameActive are those of the room
\* after the join; every other member of the room is sent exactly one
\* playerJoinedRoom naming the joiner; the joiner is not sent one.
C18_JoinSnapshotAndNotice ==
    [][last'.op = "joinRoom" =>
        LET p == last'.p
            roomId == last'.roomId
        IN (/\ roomId \in DOMAIN rooms
            /\ Len(rooms[roomId].players) < rooms[roomId].maxPlayers) =>
              /\ roomId \in DOMAIN rooms'
              /\ p \in Range(rooms'[roomId].players)
              /\ Cardinality(RoomJoinedTo(sent', p)) = 1
              /\ \A i \in RoomJoinedTo(sent', p) :
                    /\ sent'[i].msg.arg = roomId
                    /\ sent'[i].msg.data = <<rooms'[roomId].hostId,
                                             Len(rooms'[roomId].players),
                                             rooms'[roomId].calledNumbers,
                                             rooms'[roomId].gameActive>>
              /\ \A q \in Range(rooms'[roomId].players) \ {p} :
                    Cardinality(Received(sent', q, "playerJoinedRoom", p)) = 1
              /\ Received(sent', p, "playerJoinedRoom", p) = {}]_vars

\* C19: a joinRoom that fails because the requested room is absent or full
\* sends the sender one error and changes no room and no player: the sender is
\* still a member, and the host, of the room it was in.
C19_FailedJoinChangesNothing ==
    [][last'.op = "joinRoom" =>
        LET p == last'.p
            roomId == last'.roomId
        IN /\ (roomId # None /\ roomId \notin DOMAIN rooms) =>
                 /\ sent' = <<[to |-> p, msg |-> Msg("error", None, "Room not found")]>>
                 /\ rooms' = rooms
                 /\ player' = player
           /\ (roomId \in DOMAIN rooms
                 /\ Len(rooms[roomId].players) >= rooms[roomId].maxPlayers) =>
                 /\ sent' = <<[to |-> p, msg |-> Msg("error", None, "Room is full")]>>
                 /\ rooms' = rooms
                 /\ player' = player]_vars

\* C19 witness: room 1 holds its two players; connection 3, host of room 2, has
\* just asked to join room 1, got "Room is full" and is still host of room 2.
C19_Witness ==
    /\ last = Event("joinRoom", 3, 1, None)
    /\ sent = <<[to |-> 3, msg |-> Msg("error", None, "Room is full")]>>
    /\ DOMAIN rooms = {1, 2}
    /\ rooms[1].maxPlayers = 2
    /\ rooms[1].players = <<1, 2>>
    /\ rooms[2].players = <<3>>
    /\ rooms[2].hostId = 3
    /\ player[3].roomId = 2
    /\ player[3].isHost

\* C20: every recognized message whose handler does not carry out the operation
\* is answered with an error to the sender: a numberCall, startGame or stopGame
\* of a connection in no room, and a leaveRoom naming a room that is not in
\* the store, included.
C20_RefusalIsAnswered ==
    [][LET p == last'.p
       IN /\ (last'.op \in GameOps /\ player[p].roomId = None) =>
                ErrorsTo(sent', p) # {}
          /\ (last'.op = "leaveRoom" /\ last'.roomId # None
                /\ last'.roomId \notin DOMAIN rooms) =>
                ErrorsTo(sent', p) # {}]_vars

C22_UnparsableFrameDropped ==
    [][last'.op = "parseError" =>
        /\ players' = players
        /\ player' = player
        /\ rooms' = rooms
        /\ sent' = <<>>
        /\ running'
        /\ last'.p \in players'
        /\ readyState'[last'.p] = "OPEN"]_vars

\* C23: a well-formed message whose type is none of the handled kinds changes
\* no registry, player or room state and causes no message, error or
\* broadcast, to be sent to any connection.
C23_UnknownTypeIgnored ==
    [][last'.op = "unknown" =>
        /\ players' = players
        /\ player' = player
        /\ rooms' = rooms
        /\ sent' = <<>>]_vars

\* C23 witness: connection 2, member of room 1 with its host 1, has just sent a
\* message of an unknown type; the server logged it.
C23_Witness ==
    /\ last = Event("unknown", 2, None, None)
    /\ log = <<"Unknown message type">>
    /\ DOMAIN rooms = {1}
    /\ rooms[1].players = <<1, 2>>
    /\ sent = <<>>

\* C24: after a successful createRoom by p a new room with a fresh id is in the
\* store, its hostId is p and its members are exactly p, p.roomId names it,
\* p.isHost is true, and p is the host or a member of no other room.
C24_CreatorInNewRoomOnly ==
    [][(last'.op = "createRoom" /\ nextRoom' # nextRoom) =>
        LET p == last'.p
            r == nextRoom
        IN /\ r \notin DOMAIN rooms
           /\ r \in DOMAIN rooms'
           /\ rooms'[r].hostId = p
           /\ rooms'[r].players = <<p>>
           /\ player'[p].roomId = r
           /\ player'[p].isHost
           /\ \A o \in DOMAIN rooms' \ {r} :
                 rooms'[o].hostId # p /\ p \notin Range(rooms'[o].players)]_vars

\* the board variants the client offers (boardTypes and generateBoard of
\* script.js)
BoardTypes == {"75ball", "90ball", "30ball", "50ball", "pattern", "coverall"}

\* C25: a createRoom whose gameType is not one of the recognized board variants
\* creates no room: every room a createRoom step adds to the store has a
\* recognized gameType.
C25_UnknownGameTypeCreatesNoRoom ==
    [][last'.op = "createRoom" =>
        \A r \in DOMAIN rooms' \ DOMAIN rooms : rooms'[r].gameType \in BoardTypes]_vars

\* C26: a room is removed from the store only by an operation that removes its
\* last member: a room that a step removes had the connection the step serves
\* as its only member, and the step is a leaveRoom, a joinRoom or a close.
C26_OnlyEmptiedRoomsRemoved ==
    [][\A r \in DOMAIN rooms \ DOMAIN rooms' :
          /\ last'.op \in {"leaveRoom", "joinRoom", "disconnect"}
          /\ Members(r) = {last'.p}]_vars

\* C26 witness: the socket of connection 1, the only member of room 1, has just
\* closed; room 1 is removed and room 2 with its two members is kept.
C26_Witness ==
    /\ last = Event("disconnect", 1, None, None)
    /\ log = <<"Player disconnected", "Room deleted (empty)", "Player left room">>
    /\ nextRoom = 3
    /\ DOMAIN rooms = {2}
    /\ rooms[2].players = <<2, 3>>

\* C27: after a socket closes, the connection's registry record is kept, with
\* connected false, until its grace timer fires, and is then removed; a record
\* leaves the registry in no other step; the timer firing for an absent record
\* changes nothing; and the timer firing changes no player record and no
\* room's membership, hostId, gameActive or calledNumbers.
C27_GraceThenReap ==
    [][/\ \A p \in timers : p \in players /\ ~player[p].connected
       /\ \A p \in players \ players' : last'.op = "reap" /\ last'.p = p
       /\ last'.op = "disconnect" =>
             /\ last'.p \in players'
             /\ ~player'[last'.p].connected
             /\ last'.p \in timers'
       /\ last'.op = "reap" =>
             /\ players' = players \ {last'.p}
             /\ last'.p \notin timers'
             /\ player' = player
             /\ rooms' = rooms
             /\ sent' = <<>>]_vars

\* C27 witness: the grace timer of connection 1 has just fired and 1 has left
\* the registry; room 1, which it left at its close, is held by connection 2
\* with its game running and number 1 called.
C27_Witness ==
    /\ last = Event("reap", 1, None, None)
    /\ log = <<"Player removed from server">>
    /\ players = {2}
    /\ timers = {}
    /\ DOMAIN rooms = {1}
    /\ rooms[1].players = <<2>>
    /\ rooms[1].hostId = 2
    /\ rooms[1].gameActive
    /\ rooms[1].calledNumbers = <<1>>

\* C28: the periodic sweep removes from the running server's room store every
\* room that has no member and is older than the threshold, and removes no
\* room that has a member or is younger than the threshold: those rooms are in
\* the store of the running server after the sweep as they were before it.
C28_SweepRemovesOnlyOldEmptyRooms ==
    [][last'.op = "cleanup" =>
        LET old == last'.arg
        IN \A r \in DOMAIN rooms :
              IF Len(rooms[r].players) = 0 /\ r \in old
              THEN r \notin DOMAIN rooms'
              ELSE /\ running'
                   /\ r \in DOMAIN rooms'
                   /\ rooms'[r] = rooms[r]]_vars

\* C29: a numberCall of the host of a room whose gameActive is false is
\* answered with an error and leaves calledNumbers unchanged.
C29_NoCallBeforeStart ==
    [][last'.op = "numberCall" =>
        LET p == last'.p
            r == player[p].roomId
        IN (/\ r \in DOMAIN rooms
            /\ rooms[r].hostId = p
            /\ player[p].isHost
            /\ ~rooms[r].gameActive) =>
              /\ ErrorsTo(sent', p) # {}
              /\ r \in DOMAIN rooms'
              /\ rooms'[r].calledNumbers = rooms[r].calledNumbers]_vars

\* C30: when a member that is not the host leaves a room in which other members
\* remain, each remaining member is sent exactly one playerLeftRoom naming the
\* leaver, the leaver is sent none, no newHost is sent, and the room's hostId,
\* gameActive and calledNumbers are unchanged; when the last member leaves,
\* nothing is sent to anyone.
C30_LeaveNotices ==
    [][last'.op = "leaveRoom" =>
        LET p == last'.p
            r == last'.roomId
        IN (r \in DOMAIN rooms /\ p \in Members(r)) =>
              IF Members(r) = {p}
              THEN sent' = <<>>
              ELSE rooms[r].hostId # p =>
                     /\ \A q \in Members(r) \ {p} :
                           Cardinality(Received(sent', q, "playerLeftRoom", p)) = 1
                     /\ Received(sent', p, "playerLeftRoom", p) = {}
                     /\ \A i \in 1..Len(sent') : sent'[i].msg.type # "newHost"
                     /\ r \in DOMAIN rooms'
                     /\ rooms'[r].hostId = rooms[r].hostId
                     /\ rooms'[r].gameActive = rooms[r].gameActive
                     /\ rooms'[r].calledNumbers = rooms[r].calledNumbers]_vars

\* C31: in every reachable state the two representations of host agree: a
\* registered connection p has isHost true exactly when some room r of the
\* store has hostId p, lists p as a member and is named by p.roomId.
C31_HostFlagMatchesHostId ==
    \A p \in players :
        player[p].isHost <=>
            \E r \in DOMAIN rooms :
                /\ rooms[r].hostId = p
                /\ p \in Members(r)
                /\ player[p].roomId = r

\* C32: in every reachable state the back-reference and the member maps agree:
\* for a registered connection p and a room id r, p.roomId is r exactly when
\* room r is in the store and lists p as a member.
C32_RoomIdMatchesMembership ==
    \A p \in players : \A r \in RoomId :
        player[p].roomId = r <=> (r \in DOMAIN rooms /\ p \in Members(r))

\* the messages that carry the traffic of one room
RoomScoped == {"numberCalled", "gameStarted", "gameStopped", "playerWon", "chatMessage"}

\* C33: room isolation: every room-scoped message caused by a request of
\* connection p (numberCalled, gameStarted, gameStopped, playerWon,
\* chatMessage) is sent only to members of a room of which p is a member when
\* the request is served; p cannot put a chatMessage into a room it is not a
\* member of.
C33_RoomIsolation ==
    [][last'.op \in {"numberCall", "startGame", "stopGame", "win", "chat"} =>
        \A i \in 1..Len(sent') :
            sent'[i].msg.type \in RoomScoped =>
                \E r \in DOMAIN rooms :
                    last'.p \in Members(r) /\ sent'[i].to \in Members(r)]_vars

\* C34: no orphaned rooms: every room in the store has at least one member
\* whose connection is still connected, so a room whose members have all
\* disconnected is absent from the store once their close handlers have run.
C34_NoOrphanedRoom ==
    \A r \in DOMAIN rooms : \E q \in Members(r) : player[q].connected

\* what the two leave operations are compared on: the room store (each room's
\* members and hostId) and the player objects (roomId, isHost)
LeaveState(st) == <<st.rooms, st.player>>

\* C35: from the same state, with the same player and room, POST /room/leave
\* and the WebSocket leaveRoom handler leave the same rooms, members, hostId
\* and the same roomId and isHost of the leaver and of the new host.
C35_HttpLeaveEqualsWsLeave ==
    \A p \in players : \A r \in DOMAIN rooms :
        CanSend(p) =>
            LeaveState(routeLeave(Store, p, r)) = LeaveState(handleLeaveRoom(Store, p, r))

\* C36: in the relay a numberCall appends to a room's calledNumbers only when
\* the sender's id is the room's hostId, so a connection that was host of one
\* room and then joined another cannot call numbers in the room it joined.
C36_RelayCallerIsHost ==
    [][last'.op = "numberCall" =>
        \A r \in DOMAIN rooms :
            (r \in DOMAIN rooms' /\ rooms'[r].calledNumbers # rooms[r].calledNumbers)
                => rooms[r].hostId = last'.p]_vars

\* C37: in src/server.ts, after any sequence of JOIN_ROOM messages and
\* socket closes, every room of the store has at least one member and its
\* hostId is one of its current members.
C37_ServerRoomHasHostAndMember ==
    \A r \in DOMAIN rooms :
        /\ Len(rooms[r].players) >= 1
        /\ rooms[r].hostId \in Members(r)

\* C38: in src/server.ts, after any sequence of JOIN_ROOM messages a player
\* is in the member map of exactly one room, the one its roomId names, and is
\* isHost only if that room's hostId is its id.
C38_ServerPlayerInOneRoom ==
    \A p \in players :
        player[p].roomId # None =>
            /\ \A r \in DOMAIN rooms : p \in Members(r) <=> r = player[p].roomId
            /\ player[p].roomId \in DOMAIN rooms
            /\ player[p].isHost => rooms[player[p].roomId].hostId = p

\* C39: the client's callNextNumber always terminates, and a numberCall it
\* sends carries a number of 1..range of the current board type that was not
\* in gameState.calledNumbers before: the loop is only ever entered, and only
\* ever repeated, with a number of the range still uncalled, and the number of
\* a numberCall sent is in the range and new.
C39_CallNextNumberTerminates ==
    [][/\ callNext'.pc = "loop" =>
            \E n \in 1..TypeRange(gameState'.gameType) :
                ~Includes(gameState'.calledNumbers, n)
       /\ \A i \in 1..Len(sent') :
            sent'[i].msg.type = "numberCall" =>
                /\ sent'[i].msg.arg \in 1..TypeRange(gameState.gameType)
                /\ ~Includes(gameState.calledNumbers, sent'[i].msg.arg)]_vars

====
